---------------------------- MODULE Spec2Model ----------------------------
(***************************************************************************)
(* A model of matrixrain (src/src/main.rs): the glyph fade, the column     *)
(* step, the waterfall render and step, and the driver loop of main.       *)
(*                                                                         *)
(* Colours are <<r, g, b>> with channels in 0..255.  Characters are        *)
(* Unicode code points.  The sink is the sequence of commands queued on    *)
(* it during one frame, each with a flag telling whether the write         *)
(* succeeded.  Random draws are inputs of the actions.                     *)
(***************************************************************************)
EXTENDS Integers, Sequences, FiniteSets

(***************************************************************************)
(* Bounds of the model.                                                    *)
(***************************************************************************)
\* SpecColumn: the heights Column::new is called with are 0..MaxColHeight.
MaxColHeight == 3
\* Spec: the terminal sizes are the (width, height) with width * height
\* <= MaxCells (and each of them <= MaxCells).
MaxCells == 4
\* Spec: the driver loop is followed for MaxFrames iterations.
MaxFrames == 3
\* SpecOrder: grids of at most MaxOrderWidth columns (and MaxCells cells)
\* are stepped MaxFrames times.
MaxOrderWidth == 2
\* SpecRuns: the two executions step grids of at most MaxRunCells cells.
MaxRunCells == 2
\* SpecFade: the channels of the colours faded are 0..MaxLowChannel and
\* the channel values of ChannelSamples.
MaxLowChannel == 4

(***************************************************************************)
(* Program constants.                                                      *)
(***************************************************************************)
\* characters (line 27), as code points; the blank of Glyph::empty is 32.
Characters ==
    << 65418, 65424, 65419, 65392, 65395, 65404, 65413, 65427, 65414,
       65403, 65436, 65410, 65397, 65432, 65393, 65422, 65411, 65423,
       65401, 65426, 65396, 65398, 65399, 65425, 65429, 65431, 65406,
       65416, 65405, 65408, 65415, 65421, 65382, 65394, 65400, 65402,
       65407, 65409, 65412, 65417, 65420, 65428, 65430, 65433, 65434,
       65435, 65437, 166, 42, 43, 45, 44, 46, 59 >>

Blank == 32

Black == <<0, 0, 0>>

\* base_color and base_color2 of Column::step (lines 119-120).
SpawnColor1 == <<0, 150, 255>>

SpawnColor2 == <<0, 255, 43>>

\* rand.random::<f32>() is k * 2^-24 for a 24-bit k; the literal 0.1 is
\* the f32 13421773 * 2^-27.  So "draw > 0.1" is 8 * k > 13421773.
GateUnitsPerDraw == 8

GateThreshold == 13421773

MaxGateDraw == 16777215

(***************************************************************************)
(* Inputs: the values the random sources are taken to return.              *)
(***************************************************************************)
\* Gate draws: the two ends of the range and the two sides of the threshold.
GateDraws == {0, 1677721, 1677722, MaxGateDraw}

\* random_range(0..characters.chars().count()): the first and last index.
CharDraws == {0, Len(Characters) - 1}

Draws == [gate : GateDraws, ch : CharDraws, coin : BOOLEAN]

\* Spec steps whole grids: there the character drawn is always the first.
MainDraws == [gate : GateDraws, ch : {0}, coin : BOOLEAN]

\* The channels of the colours handed to fade_color: the low values, the
\* channels of the spawn colours, the middle and the top of the range.
ChannelSamples == (0..MaxLowChannel) \cup {43, 128, 150, 255}

\* base_color handed to Column::new: the two colours main chooses from, and
\* one that is neither.
BaseColors == {SpawnColor1, SpawnColor2, <<10, 20, 30>>}

(***************************************************************************)
(* Glyph                                                                   *)
(***************************************************************************)
Abs(n) == IF n < 0 THEN -n ELSE n

Max3(c) ==
    IF c[1] >= c[2] /\ c[1] >= c[3] THEN c[1]
    ELSE IF c[2] >= c[3] THEN c[2] ELSE c[3]

Min3(c) ==
    IF c[1] <= c[2] /\ c[1] <= c[3] THEN c[1]
    ELSE IF c[2] <= c[3] THEN c[2] ELSE c[3]

\* Hsl::from_color: lightness = (max + min) / 2 = HslSum / 510.
HslSum(c) == Max3(c) + Min3(c)

\* max - min, in 255ths.
HslChroma(c) == Max3(c) - Min3(c)

\* saturation = chroma / (1 - |2 * lightness - 1|) = HslChroma / HslDenom,
\* and 0 when the chroma is 0.
HslDenom(c) == 255 - Abs(HslSum(c) - 255)

\* After lightness * 0.93: 1 - |2 * lightness' - 1| = FadedSpan / 25500.
FadedSpan(c) == 25500 - Abs(93 * HslSum(c) - 25500)

\* FadeChannel rounding up where "as u8" truncates.
FadeChannelRoundUp(c, v) ==
    IF HslChroma(c) = 0
    THEN (93 * v + 99) \div 100
    ELSE (930 * HslSum(c) * HslDenom(c)
            + 9 * FadedSpan(c) * (2 * (v - Min3(c)) - HslChroma(c))
            + 2000 * HslDenom(c) - 1)
         \div (2000 * HslDenom(c))

(***************************************************************************)
(* One channel of fade_color, in exact arithmetic.  With s' = 0.9 * s and  *)
(* l' = 0.93 * l (both already within [0, 1], so clamp changes nothing),   *)
(* Srgb::from_color gives chroma' = (1 - |2l' - 1|) * s', places min' at   *)
(* l' - chroma'/2 and a channel that was the fraction t = (v - min) /      *)
(* (max - min) of the way from min to max at min' + t * chroma' (the hue   *)
(* is kept).  Times 255 and truncated by "as u8":                          *)
(*   (930 * Sum * Denom + 9 * Span * (2 * (v - min) - Chroma))             *)
(*      / (2000 * Denom).                                                  *)
(* A grey (chroma 0) has saturation 0 and every channel 0.93 * v.          *)
(* The f32 rounding of the intermediate values is not modelled.            *)
(***************************************************************************)
FadeChannel(c, v) ==
    IF HslChroma(c) = 0
    THEN (93 * v) \div 100
    ELSE (930 * HslSum(c) * HslDenom(c)
            + 9 * FadedSpan(c) * (2 * (v - Min3(c)) - HslChroma(c)))
         \div (2000 * HslDenom(c))

FadeColor(c) == <<FadeChannel(c, c[1]), FadeChannel(c, c[2]), FadeChannel(c, c[3])>>

GlyphNew(character, color) == [character |-> character, color |-> color]

\* characters.chars().nth(i) for the drawn index i.
GlyphNewRandom(i, color) == GlyphNew(Characters[i + 1], color)

\* fade_color keeping a lit glyph from going fully dark.
GlyphFadeKeepsLit(g) ==
    IF g.color # Black /\ FadeColor(g.color) = Black
    THEN g
    ELSE [g EXCEPT !.color = FadeColor(g.color)]

GlyphFade(g) == [g EXCEPT !.color = FadeColor(g.color)]

GlyphEmpty == GlyphNew(Blank, Black)

(***************************************************************************)
(* The sink.  Queue appends the command to the frame's log; the call       *)
(* fails when its number in the frame is in fails.                         *)
(***************************************************************************)
Queue(out, cmd, arg, fails) ==
    Append(out, [cmd |-> cmd, arg |-> arg, ok |-> (Len(out) + 1) \notin fails])

LastOk(out) == out[Len(out)].ok

\* Glyph::render: each queue! is followed by ?.
GlyphRender(g, out, fails) ==
    LET o1 == Queue(out, "SetBackgroundColor", Black, fails)
        o2 == Queue(o1, "SetForegroundColor", g.color, fails)
        o3 == Queue(o2, "Print", <<g.character>>, fails)
    IN  IF ~LastOk(o1) THEN [out |-> o1, ok |-> FALSE]
        ELSE IF ~LastOk(o2) THEN [out |-> o2, ok |-> FALSE]
        ELSE [out |-> o3, ok |-> LastOk(o3)]

(***************************************************************************)
(* Column                                                                  *)
(***************************************************************************)
ColumnNew(height_, base_color_) ==
    [height |-> height_,
     base_color |-> base_color_,
     glyphs |-> [i \in 1..height_ |-> GlyphEmpty],
     active_index |-> 0]

\* Column::render: the glyph's result is dropped and Ok(()) returned.
ColumnRender(col, out, y, fails) ==
    [out |-> GlyphRender(col.glyphs[y + 1], out, fails).out, ok |-> TRUE]

\* The gate applied wherever the cursor is.
GatedAnywhere(col, d) == GateUnitsPerDraw * d.gate > GateThreshold

\* The early return of Column::step.
Gated(col, d) ==
    col.active_index = 0 /\ GateUnitsPerDraw * d.gate > GateThreshold

\* for glyph in &mut self.glyphs { glyph.fade_color(); }
FadeAll(col) ==
    [col EXCEPT !.glyphs = [i \in DOMAIN col.glyphs |-> GlyphFade(col.glyphs[i])]]

\* choose_random(a, b): gen_bool(0.5) of the thread-local generator.
ChooseRandom(a, b, coin) == IF coin THEN a ELSE b

\* SpawnRow naming the row after the cursor.
SpawnRowAfterCursor(col) ==
    IF col.active_index + 1 >= col.height THEN 0 ELSE col.active_index + 1

\* The row self.glyphs[self.active_index] names.
SpawnRow(col) == col.active_index

\* Spawn pushing the new glyph at the end of the vector.
SpawnPush(col, d) ==
    [col EXCEPT !.glyphs = Append(col.glyphs,
        GlyphNewRandom(d.ch, ChooseRandom(SpawnColor1, SpawnColor2, d.coin)))]

\* Spawn with the coin of choose_random picking the character as well.
SpawnCharacterByCoin(col, d) ==
    [col EXCEPT !.glyphs[SpawnRow(col) + 1] =
        GlyphNewRandom(IF d.coin THEN d.ch ELSE 0,
                       ChooseRandom(SpawnColor1, SpawnColor2, d.coin))]

\* self.glyphs[self.active_index] = Glyph::new_random(rand, chosen)
Spawn(col, d) ==
    [col EXCEPT !.glyphs[SpawnRow(col) + 1] =
        GlyphNewRandom(d.ch, ChooseRandom(SpawnColor1, SpawnColor2, d.coin))]

\* Advance with the wrap test off by one.
AdvanceOffByOne(col) ==
    IF col.active_index + 1 > col.height
    THEN [col EXCEPT !.active_index = 0]
    ELSE [col EXCEPT !.active_index = col.active_index + 1]

\* self.active_index += 1; if self.active_index >= height { ... = 0 }
Advance(col) ==
    IF col.active_index + 1 >= col.height
    THEN [col EXCEPT !.active_index = 0]
    ELSE [col EXCEPT !.active_index = col.active_index + 1]

\* The calls Column::step makes on rand: rand.random::<f32>() is behind
\* "self.active_index == 0 &&", and Glyph::new_random calls random_range
\* once, in every step that is not gated (it is evaluated before the row
\* is indexed).
RandCalls(col, d) ==
    (IF col.active_index = 0 THEN 1 ELSE 0) + (IF Gated(col, d) THEN 0 ELSE 1)

\* Column::step without the advance of active_index.
ColumnStepNoAdvance(col, d) ==
    IF Gated(col, d)
    THEN [col |-> col, wrote |-> <<>>, panicked |-> FALSE]
    ELSE IF SpawnRow(col) >= Len(col.glyphs)
    THEN [col |-> FadeAll(col), wrote |-> <<>>, panicked |-> TRUE]
    ELSE [col |-> Spawn(FadeAll(col), d),
          wrote |-> <<SpawnRow(col)>>,
          panicked |-> FALSE]

\* Column::step with the fade after the spawn.
ColumnStepSpawnThenFade(col, d) ==
    IF Gated(col, d)
    THEN [col |-> col, wrote |-> <<>>, panicked |-> FALSE]
    ELSE IF SpawnRow(col) >= Len(col.glyphs)
    THEN [col |-> FadeAll(col), wrote |-> <<>>, panicked |-> TRUE]
    ELSE [col |-> Advance(FadeAll(Spawn(col, d))),
          wrote |-> <<SpawnRow(col)>>,
          panicked |-> FALSE]

\* Column::step with the fade ahead of the gate.
ColumnStepFadesWhenGated(col, d) ==
    IF Gated(col, d)
    THEN [col |-> FadeAll(col), wrote |-> <<>>, panicked |-> FALSE]
    ELSE IF SpawnRow(col) >= Len(col.glyphs)
    THEN [col |-> FadeAll(col), wrote |-> <<>>, panicked |-> TRUE]
    ELSE [col |-> Advance(Spawn(FadeAll(col), d)),
          wrote |-> <<SpawnRow(col)>>,
          panicked |-> FALSE]

\* Column::step.  wrote lists the rows assigned; panicked tells that the
\* index was out of range (the step then ends in a panic after the fade).
ColumnStep(col, d) ==
    IF Gated(col, d)
    THEN [col |-> col, wrote |-> <<>>, panicked |-> FALSE]
    ELSE IF SpawnRow(col) >= Len(col.glyphs)
    THEN [col |-> FadeAll(col), wrote |-> <<>>, panicked |-> TRUE]
    ELSE [col |-> Advance(Spawn(FadeAll(col), d)),
          wrote |-> <<SpawnRow(col)>>,
          panicked |-> FALSE]

(***************************************************************************)
(* MatrixWaterFall                                                         *)
(***************************************************************************)
\* vec![Column::new(height, base_color); width]: width clones of the column.
MatrixWaterFallNew(width_, height_, base_color_) ==
    [width |-> width_,
     height |-> height_,
     base_color |-> base_color_,
     columns |-> [x \in 1..width_ |-> ColumnNew(height_, base_color_)]]

\* RenderColumns walking the columns right to left.
RECURSIVE RenderColumnsRightToLeft(_, _, _, _, _)
RenderColumnsRightToLeft(cols, x, out, y, fails) ==
    IF x > Len(cols) THEN [out |-> out, ok |-> TRUE]
    ELSE LET r == ColumnRender(cols[Len(cols) + 1 - x], out, y, fails)
         IN  IF ~r.ok THEN r
             ELSE RenderColumnsRightToLeft(cols, x + 1, r.out, y, fails)

\* for column in &self.columns { column.render(out, y)?; }
RECURSIVE RenderColumns(_, _, _, _, _)
RenderColumns(cols, x, out, y, fails) ==
    IF x > Len(cols) THEN [out |-> out, ok |-> TRUE]
    ELSE LET r == ColumnRender(cols[x], out, y, fails)
         IN  IF ~r.ok THEN r ELSE RenderColumns(cols, x + 1, r.out, y, fails)

\* for y in 0..self.height { ... }
RECURSIVE RenderRows(_, _, _, _)
RenderRows(w, y, out, fails) ==
    IF y >= w.height THEN [out |-> out, ok |-> TRUE]
    ELSE LET r == RenderColumns(w.columns, 1, out, y, fails)
         IN  IF ~r.ok THEN r ELSE RenderRows(w, y + 1, r.out, fails)

\* MatrixWaterFall::render.  The results of the first two queue! are
\* dropped; the rows, ResetColor and flush are followed by ?.
WaterfallRender(w, fails) ==
    LET o1 == Queue(<<>>, "Hide", <<>>, fails)
        o2 == Queue(o1, "MoveTo", <<0, 0>>, fails)
        cells == RenderRows(w, 0, o2, fails)
        o3 == Queue(cells.out, "ResetColor", <<>>, fails)
        o4 == Queue(o3, "Flush", <<>>, fails)
    IN  IF ~cells.ok THEN cells
        ELSE IF ~LastOk(o3) THEN [out |-> o3, ok |-> FALSE]
        ELSE [out |-> o4, ok |-> LastOk(o4)]

\* The sink calls a frame can make, and the ways the sink is taken to fail
\* in a frame: never, at one call only, or from one call on.
MaxCalls(w) == 4 + 3 * w.width * w.height

FailurePatterns(w) ==
    {{}} \cup {{k} : k \in 1..MaxCalls(w)}
         \cup {k..MaxCalls(w) : k \in 1..MaxCalls(w)}

(***************************************************************************)
(* The driver loop of main: where control goes after each statement.       *)
(***************************************************************************)
\* waterfall.render(&mut stdout)?
AfterRender(ok) == IF ok THEN "rendered" ELSE "aborted"

\* The loop going from sleep to step, with no render between.
AfterSleepSkipsRender == "step"

\* std::thread::sleep(..) is the last statement of the loop body.
AfterSleep == "render"

(***************************************************************************)
(* State                                                                   *)
(***************************************************************************)
VARIABLES
    column,         \* SpecColumn: the column under test
    col_pc,         \* SpecColumn: "ready", or "panicked" once a step panicked
    last,           \* SpecColumn: <<>> or <<[index, d]>>: active_index before
                    \*   the latest step and the draws handed to it
    trail,          \* SpecColumn: [from, row] of the latest consecutive steps
                    \*   that wrote a row (at most height of them)
    waterfall,      \* Spec: the grid of main
    pc,             \* Spec: position of main in its loop
    step_x,         \* Spec: columns already stepped by MatrixWaterFall::step
    out,            \* Spec: the sink log of the frame just rendered
    render_result,  \* Spec: "none", "Ok" or "Err": what render returned last
    frames,         \* Spec: calls of render so far
    steps,          \* Spec: completed calls of MatrixWaterFall::step
    sink_failed,    \* Spec: some sink call has failed
    took,           \* SpecColumn: calls on rand made by the latest step
    ages,           \* SpecColumn: per row, -1 while never spawned, else the
                    \*   steps that faded it since it was last written
    glyph,          \* SpecFade: the glyph being faded
    unfaded,        \* SpecFade: <<>>, or <<g>>: the glyph as it was before
                    \*   the latest fade
    permuted,       \* SpecOrder: the grid stepped in another column order
    tick,           \* SpecOrder: <<>>, or <<[order, count]>>: the other order
                    \*   of the latest step and, per column, the calls of
                    \*   Column::step the step made on it
    twin,           \* SpecRuns: the grid of the second execution
    skew            \* SpecRuns: calls on rand made by the first execution
                    \*   minus those made by the second

columnVars == <<column, col_pc, last, trail, took, ages>>

otherVars == <<glyph, unfaded, permuted, tick, twin, skew>>

mainVars == <<waterfall, pc, step_x, out, render_result, frames, steps, sink_failed>>

vars == <<column, col_pc, last, trail, took, ages, waterfall, pc, step_x, out,
          render_result, frames, steps, sink_failed, glyph, unfaded, permuted, tick,
          twin, skew>>

\* The values of the variables a specification does not use.
ColumnIdle ==
    /\ column = ColumnNew(0, Black)
    /\ col_pc = "ready"
    /\ last = <<>>
    /\ trail = <<>>
    /\ took = 0
    /\ ages = <<>>

OtherIdle ==
    /\ glyph = GlyphEmpty
    /\ unfaded = <<>>
    /\ permuted = MatrixWaterFallNew(0, 0, Black)
    /\ tick = <<>>
    /\ twin = MatrixWaterFallNew(0, 0, Black)
    /\ skew = 0

MainIdle ==
    /\ waterfall = MatrixWaterFallNew(0, 0, Black)
    /\ pc = "render"
    /\ step_x = 0
    /\ out = <<>>
    /\ render_result = "none"
    /\ frames = 0
    /\ steps = 0
    /\ sink_failed = FALSE

(***************************************************************************)
(* SpecOrder: MatrixWaterFall::step as one action, on the grid and on a    *)
(* copy of it whose columns are stepped in another order with the same     *)
(* per-column draws.                                                       *)
(***************************************************************************)
\* The draws of SpecOrder: gated or not, either spawn colour.
OrderDraws == [gate : {0, MaxGateDraw}, ch : {0}, coin : BOOLEAN]

\* The orders in which n columns can be visited.
Orders(n) == {o \in [1..n -> 1..n] : \A i, j \in 1..n : i # j => o[i] # o[j]}

\* for column in &mut self.columns visits the columns as the vector has
\* them.
VecOrder(n) == [i \in 1..n |-> i]

\* StepOneColumn on columns that share one glyph vector.
StepOneColumnSharedGlyphs(st, x, d) ==
    LET r == ColumnStep(st.w.columns[x], d)
    IN  [w |-> [st.w EXCEPT !.columns =
                  [j \in DOMAIN st.w.columns |->
                     IF j = x THEN r.col
                     ELSE [st.w.columns[j] EXCEPT !.glyphs = r.col.glyphs]]],
         panicked |-> r.panicked,
         count |-> [st.count EXCEPT ![x] = @ + 1]]

\* column.step(rand) on column x of the grid st.w; a panic ends the call.
StepOneColumn(st, x, d) ==
    LET r == ColumnStep(st.w.columns[x], d)
    IN  [w |-> [st.w EXCEPT !.columns[x] = r.col],
         panicked |-> r.panicked,
         count |-> [st.count EXCEPT ![x] = @ + 1]]

\* The loop of MatrixWaterFall::step from position k of the order on.
RECURSIVE StepColumnsFrom(_, _, _, _)
StepColumnsFrom(st, order, ds, k) ==
    IF k > Len(order) \/ st.panicked
    THEN st
    ELSE StepColumnsFrom(StepOneColumn(st, order[k], ds[order[k]]), order, ds, k + 1)

\* MatrixWaterFall::step visiting the columns in the given order, column x
\* drawing ds[x].
WaterfallStep(w, order, ds) ==
    StepColumnsFrom([w |-> w, panicked |-> FALSE,
                     count |-> [x \in 1..Len(w.columns) |-> 0]],
                    order, ds, 1)

InitOrder ==
    /\ \E w \in 0..MaxOrderWidth, h \in 0..MaxCells :
         /\ w * h <= MaxCells
         /\ waterfall = MatrixWaterFallNew(w, h, SpawnColor1)
         /\ permuted = MatrixWaterFallNew(w, h, SpawnColor1)
    /\ tick = <<>>
    /\ pc = "step"
    /\ step_x = 0
    /\ out = <<>>
    /\ render_result = "none"
    /\ frames = 0
    /\ steps = 0
    /\ sink_failed = FALSE
    /\ glyph = GlyphEmpty
    /\ unfaded = <<>>
    /\ twin = MatrixWaterFallNew(0, 0, Black)
    /\ skew = 0
    /\ ColumnIdle

\* waterfall.step(&mut rand)
WaterfallStepOp ==
    /\ pc = "step"
    /\ steps < MaxFrames
    /\ \E ds \in [1..Len(waterfall.columns) -> OrderDraws],
          order \in Orders(Len(waterfall.columns)) :
         LET a == WaterfallStep(waterfall, VecOrder(Len(waterfall.columns)), ds)
             b == WaterfallStep(permuted, order, ds)
         IN  /\ waterfall' = a.w
             /\ permuted' = b.w
             /\ tick' = <<[order |-> order, count |-> a.count]>>
             /\ pc' = IF a.panicked THEN "panicked" ELSE "step"
             /\ steps' = IF a.panicked THEN steps ELSE steps + 1
    /\ UNCHANGED <<step_x, out, render_result, frames, sink_failed>>
    /\ UNCHANGED <<glyph, unfaded, twin, skew>>
    /\ UNCHANGED columnVars

NextOrder == WaterfallStepOp

SpecOrder == InitOrder /\ [][NextOrder]_vars

(***************************************************************************)
(* SpecRuns: two executions of MatrixWaterFall::step after step, started   *)
(* from the same grid with the same state of the supplied random source.   *)
(* Both read the source at their own position: while the positions agree   *)
(* (skew = 0) a call returns the same value in both, otherwise the values  *)
(* are unrelated.  choose_random asks rand::thread_rng(), which is seeded  *)
(* apart in each execution: the two coins are unrelated.                   *)
(***************************************************************************)
RunDraws == [gate : {0, MaxGateDraw}, ch : CharDraws, coin : BOOLEAN]

\* The draws of the second execution, the first having drawn d.
TwinDraws(d) ==
    IF skew = 0
    THEN {e \in RunDraws : e.gate = d.gate /\ e.ch = d.ch}
    ELSE RunDraws

InitRuns ==
    /\ \E w \in 0..MaxRunCells, h \in 0..MaxRunCells :
         /\ w * h <= MaxRunCells
         /\ waterfall = MatrixWaterFallNew(w, h, SpawnColor1)
         /\ twin = MatrixWaterFallNew(w, h, SpawnColor1)
    /\ skew = 0
    /\ pc = "step"
    /\ step_x = 0
    /\ out = <<>>
    /\ render_result = "none"
    /\ frames = 0
    /\ steps = 0
    /\ sink_failed = FALSE
    /\ glyph = GlyphEmpty
    /\ unfaded = <<>>
    /\ permuted = MatrixWaterFallNew(0, 0, Black)
    /\ tick = <<>>
    /\ ColumnIdle

\* column.step(rand) on the same column of both executions.
RunsStepColumn ==
    /\ pc = "step"
    /\ steps < MaxFrames
    /\ step_x < Len(waterfall.columns)
    /\ \E d \in RunDraws :
         \E e \in TwinDraws(d) :
            LET a == ColumnStep(waterfall.columns[step_x + 1], d)
                b == ColumnStep(twin.columns[step_x + 1], e)
            IN  /\ waterfall' = [waterfall EXCEPT !.columns[step_x + 1] = a.col]
                /\ twin' = [twin EXCEPT !.columns[step_x + 1] = b.col]
                /\ skew' = skew + RandCalls(waterfall.columns[step_x + 1], d)
                                - RandCalls(twin.columns[step_x + 1], e)
                /\ pc' = IF a.panicked \/ b.panicked THEN "panicked" ELSE "step"
                /\ step_x' = IF a.panicked \/ b.panicked THEN step_x ELSE step_x + 1
    /\ UNCHANGED <<out, render_result, frames, steps, sink_failed>>
    /\ UNCHANGED <<glyph, unfaded, permuted, tick>>
    /\ UNCHANGED columnVars

\* MatrixWaterFall::step returns in both executions and is called again.
RunsStepReturn ==
    /\ pc = "step"
    /\ steps < MaxFrames
    /\ step_x = Len(waterfall.columns)
    /\ step_x' = 0
    /\ steps' = steps + 1
    /\ UNCHANGED <<waterfall, pc, out, render_result, frames, sink_failed>>
    /\ UNCHANGED otherVars
    /\ UNCHANGED columnVars

NextRuns == RunsStepColumn \/ RunsStepReturn

SpecRuns == InitRuns /\ [][NextRuns]_vars

(***************************************************************************)
(* SpecFade: one glyph, faded again and again.                             *)
(***************************************************************************)
InitFade ==
    /\ \E ch \in {Blank, Characters[1]}, r \in ChannelSamples,
          g \in ChannelSamples, b \in ChannelSamples :
            glyph = GlyphNew(ch, <<r, g, b>>)
    /\ unfaded = <<>>
    /\ permuted = MatrixWaterFallNew(0, 0, Black)
    /\ tick = <<>>
    /\ twin = MatrixWaterFallNew(0, 0, Black)
    /\ skew = 0
    /\ ColumnIdle
    /\ MainIdle

\* glyph.fade_color()
FadeOp ==
    /\ glyph' = GlyphFade(glyph)
    /\ unfaded' = <<glyph>>
    /\ UNCHANGED <<permuted, tick, twin, skew>>
    /\ UNCHANGED columnVars
    /\ UNCHANGED mainVars

NextFade == FadeOp

SpecFade == InitFade /\ [][NextFade]_vars

\* The fades go on: the glyph is faded in every tick that is not gated.
SpecFadeFair == SpecFade /\ WF_vars(FadeOp)

(***************************************************************************)
(* SpecColumn: one column built by Column::new and stepped any number of   *)
(* times.                                                                  *)
(***************************************************************************)
\* The latest consecutive writing steps, at most n of them.
KeepLast(s, n) ==
    IF Len(s) <= n THEN s ELSE SubSeq(s, Len(s) - n + 1, Len(s))

InitColumn ==
    /\ \E h \in 0..MaxColHeight, bc \in BaseColors : column = ColumnNew(h, bc)
    /\ col_pc = "ready"
    /\ last = <<>>
    /\ trail = <<>>
    /\ took = 0
    /\ ages = [i \in 1..column.height |-> -1]
    /\ OtherIdle
    /\ waterfall = MatrixWaterFallNew(0, 0, Black)
    /\ pc = "render"
    /\ step_x = 0
    /\ out = <<>>
    /\ render_result = "none"
    /\ frames = 0
    /\ steps = 0
    /\ sink_failed = FALSE

ColumnStepOp ==
    /\ col_pc = "ready"
    /\ \E d \in Draws :
         LET r == ColumnStep(column, d)
         IN  /\ column' = r.col
             /\ col_pc' = IF r.panicked THEN "panicked" ELSE "ready"
             /\ last' = <<[index |-> column.active_index, d |-> d]>>
             /\ trail' = IF r.wrote = <<>> THEN <<>>
                         ELSE KeepLast(Append(trail,
                                  [from |-> column.active_index, row |-> r.wrote[1]]),
                                  column.height)
             /\ took' = RandCalls(column, d)
             /\ ages' = IF r.wrote = <<>> THEN ages
                        ELSE [i \in DOMAIN ages |->
                                IF i = r.wrote[1] + 1 THEN 0
                                ELSE IF ages[i] < 0 THEN ages[i]
                                ELSE ages[i] + 1]
    /\ UNCHANGED mainVars
    /\ UNCHANGED otherVars

NextColumn == ColumnStepOp

SpecColumn == InitColumn /\ [][NextColumn]_vars

(***************************************************************************)
(* Spec: main.  A terminal of width x height cells, the waterfall built    *)
(* for it, and the loop render, step, sleep.                               *)
(***************************************************************************)
Init ==
    /\ \E w \in 0..MaxCells, h \in 0..MaxCells, bc \in {SpawnColor1, SpawnColor2} :
         /\ w * h <= MaxCells
         /\ waterfall = MatrixWaterFallNew(w, h, bc)
    /\ pc = "render"
    /\ step_x = 0
    /\ out = <<>>
    /\ render_result = "none"
    /\ frames = 0
    /\ steps = 0
    /\ sink_failed = FALSE
    /\ ColumnIdle
    /\ OtherIdle

\* waterfall.render(&mut stdout)?
Render ==
    /\ pc = "render"
    /\ frames < MaxFrames
    /\ \E fails \in FailurePatterns(waterfall) :
         LET r == WaterfallRender(waterfall, fails)
         IN  /\ out' = r.out
             /\ render_result' = IF r.ok THEN "Ok" ELSE "Err"
             /\ pc' = AfterRender(r.ok)
             /\ sink_failed' = (sink_failed \/ \E i \in 1..Len(r.out) : ~r.out[i].ok)
    /\ frames' = frames + 1
    /\ UNCHANGED <<waterfall, step_x, steps>>
    /\ UNCHANGED columnVars
    /\ UNCHANGED otherVars

\* main calls waterfall.step(&mut rand); the log of the frame is dropped
\* here, the sink being write-only.
CallStep ==
    /\ pc = "rendered"
    /\ pc' = "step"
    /\ step_x' = 0
    /\ out' = <<>>
    /\ UNCHANGED <<waterfall, render_result, frames, steps, sink_failed>>
    /\ UNCHANGED columnVars
    /\ UNCHANGED otherVars

\* StepColumn on columns that share one glyph vector.
StepColumnSharedGlyphs ==
    /\ pc = "step"
    /\ step_x < Len(waterfall.columns)
    /\ \E d \in MainDraws :
         LET r == ColumnStep(waterfall.columns[step_x + 1], d)
         IN  /\ waterfall' = [waterfall EXCEPT !.columns =
                    [j \in DOMAIN waterfall.columns |->
                        IF j = step_x + 1 THEN r.col
                        ELSE [waterfall.columns[j] EXCEPT !.glyphs = r.col.glyphs]]]
             /\ pc' = IF r.panicked THEN "panicked" ELSE "step"
             /\ step_x' = IF r.panicked THEN step_x ELSE step_x + 1
    /\ UNCHANGED <<out, render_result, frames, steps, sink_failed>>
    /\ UNCHANGED columnVars
    /\ UNCHANGED otherVars

\* One iteration of for column in &mut self.columns { column.step(rand); }
StepColumn ==
    /\ pc = "step"
    /\ step_x < Len(waterfall.columns)
    /\ \E d \in MainDraws :
         LET r == ColumnStep(waterfall.columns[step_x + 1], d)
         IN  /\ waterfall' = [waterfall EXCEPT !.columns[step_x + 1] = r.col]
             /\ pc' = IF r.panicked THEN "panicked" ELSE "step"
             /\ step_x' = IF r.panicked THEN step_x ELSE step_x + 1
    /\ UNCHANGED <<out, render_result, frames, steps, sink_failed>>
    /\ UNCHANGED columnVars
    /\ UNCHANGED otherVars

\* MatrixWaterFall::step returns.
StepReturn ==
    /\ pc = "step"
    /\ step_x = Len(waterfall.columns)
    /\ pc' = "sleep"
    /\ steps' = steps + 1
    /\ UNCHANGED <<waterfall, step_x, out, render_result, frames, sink_failed>>
    /\ UNCHANGED columnVars
    /\ UNCHANGED otherVars

\* std::thread::sleep(Duration::from_millis(80))
Sleep ==
    /\ pc = "sleep"
    /\ pc' = AfterSleep
    /\ UNCHANGED <<waterfall, step_x, out, render_result, frames, steps, sink_failed>>
    /\ UNCHANGED columnVars
    /\ UNCHANGED otherVars

Next == Render \/ CallStep \/ StepColumn \/ StepReturn \/ Sleep

Spec == Init /\ [][Next]_vars

(***************************************************************************)
(* Definitions the properties share.                                       *)
(***************************************************************************)
Alphabet == {Characters[i] : i \in 1..Len(Characters)}

SpawnColors == {SpawnColor1, SpawnColor2}

\* The step recorded in l was not gated, judged by its inputs alone: the
\* cursor was not at the top, or the draw did not exceed 0.1.
NotGatedInput(l) == l.index # 0 \/ 8 * l.d.gate <= 13421773

\* Every sink call of the frame succeeded.
Clean(log) == \A i \in 1..Len(log) : log[i].ok

\* The frame of section 6 for grid w: hide-cursor, move-to-origin, the
\* cells row by row and left to right, reset-colors, flush.
ExpectedFrame(w) ==
    [k \in 1..(4 + 3 * w.width * w.height) |->
        IF k = 1 THEN [cmd |-> "Hide", arg |-> <<>>, ok |-> TRUE]
        ELSE IF k = 2 THEN [cmd |-> "MoveTo", arg |-> <<0, 0>>, ok |-> TRUE]
        ELSE IF k = 3 + 3 * w.width * w.height
             THEN [cmd |-> "ResetColor", arg |-> <<>>, ok |-> TRUE]
        ELSE IF k = 4 + 3 * w.width * w.height
             THEN [cmd |-> "Flush", arg |-> <<>>, ok |-> TRUE]
        ELSE LET cell == (k - 3) \div 3
                 y == cell \div w.width
                 x == cell % w.width
                 g == w.columns[x + 1].glyphs[y + 1]
             IN  IF (k - 3) % 3 = 0
                 THEN [cmd |-> "SetBackgroundColor", arg |-> <<0, 0, 0>>, ok |-> TRUE]
                 ELSE IF (k - 3) % 3 = 1
                 THEN [cmd |-> "SetForegroundColor", arg |-> g.color, ok |-> TRUE]
                 ELSE [cmd |-> "Print", arg |-> <<g.character>>, ok |-> TRUE]]

(***************************************************************************)
(* C1 (SpecColumn).  In every reachable state of a column built by         *)
(* Column::new and mutated only by Column::step, 0 <= active_index <       *)
(* height, for every height the constructor accepts.                       *)
(* Column::new(0, _) is accepted and has active_index = 0 = height.        *)
(***************************************************************************)
C1_ActiveIndexInRange ==
    0 <= column.active_index /\ column.active_index < column.height

(***************************************************************************)
(* C2 (SpecColumn).  A step taken with active_index = 0 either leaves the  *)
(* column as it was, or fades every glyph once, replaces the glyph of row  *)
(* 0 by a fresh one (a character of the alphabet in a spawn colour) and    *)
(* moves active_index to 1 modulo height; nothing in between.  (The step   *)
(* that panics, C5, is on a column without glyphs and leaves it as it      *)
(* was.)                                                                   *)
(***************************************************************************)
C2_FullUpdate ==
    /\ column'.height = column.height
    /\ column'.base_color = column.base_color
    /\ Len(column'.glyphs) = Len(column.glyphs)
    /\ column'.active_index = (column.active_index + 1) % column.height
    /\ \A i \in 1..Len(column.glyphs) :
         IF i = column.active_index + 1
         THEN /\ column'.glyphs[i].character \in Alphabet
              /\ column'.glyphs[i].color \in SpawnColors
         ELSE /\ column'.glyphs[i].character = column.glyphs[i].character
              /\ column'.glyphs[i].color = FadeColor(column.glyphs[i].color)

C2_GateAllOrNothing ==
    [][column.active_index = 0 => (column' = column \/ C2_FullUpdate)]_vars

\* A full update from the top of a column whose other row holds a glyph
\* spawned earlier and faded since.
C2_Witness ==
    /\ col_pc = "ready"
    /\ column.height = 2
    /\ last # <<>>
    /\ last[1].index = 0
    /\ column.active_index = 1
    /\ column.glyphs[2].character \in Alphabet
    /\ column.glyphs[2].color \notin SpawnColors \cup {Black}

(***************************************************************************)
(* C3 (SpecColumn).  After every step that was not gated, the row that was *)
(* active_index before the step holds exactly (0,150,255) or (0,255,43):   *)
(* not a faded spawn colour, not the faded colour of the previous          *)
(* occupant, whatever the column's base_color.                             *)
(***************************************************************************)
C3_HeadAtFullBrightness ==
    (col_pc = "ready" /\ last # <<>> /\ NotGatedInput(last[1]))
        => /\ column.glyphs[last[1].index + 1].color \in {<<0, 150, 255>>, <<0, 255, 43>>}
           /\ column.glyphs[last[1].index + 1].color
                 \notin {FadeColor(<<0, 150, 255>>), FadeColor(<<0, 255, 43>>)}

\* A spawn over an earlier glyph (the column has wrapped) in a column whose
\* base_color is neither spawn colour.
C3_Witness ==
    /\ col_pc = "ready"
    /\ last # <<>>
    /\ NotGatedInput(last[1])
    /\ column.base_color = <<10, 20, 30>>
    /\ column.height = 2
    /\ Len(trail) = 2
    /\ last[1].index = 0
    /\ column.glyphs[2].color \notin SpawnColors \cup {Black}

(***************************************************************************)
(* C4 (SpecColumn).  For height H >= 1, a step that was not gated moves    *)
(* active_index to (active_index + 1) mod H; after H consecutive such      *)
(* steps active_index is what it was before them and the rows written in   *)
(* them are 0..H-1, each once.                                             *)
(***************************************************************************)
C4_Wraparound ==
    (col_pc = "ready" /\ column.height >= 1)
        => /\ (last # <<>> /\ NotGatedInput(last[1]))
                 => column.active_index = (last[1].index + 1) % column.height
           /\ Len(trail) = column.height
                 => /\ column.active_index = trail[1].from
                    /\ {trail[k].row : k \in 1..Len(trail)} = 0..(column.height - 1)

\* Three consecutive writing steps of a column of height 3 that began in
\* the middle of the column.
C4_Witness ==
    /\ col_pc = "ready"
    /\ column.height = 3
    /\ Len(trail) = 3
    /\ trail[1].from = 1
    /\ column.active_index = 1

(***************************************************************************)
(* C5 (SpecColumn).  Column::step cannot fail: for every height and after  *)
(* any steps, a step completes without an out-of-range row access.         *)
(* With height 0 a step that is not gated indexes glyphs[0] of an empty    *)
(* vector.                                                                 *)
(***************************************************************************)
C5_StepNeverPanics == col_pc # "panicked"

(***************************************************************************)
(* C6 (Spec).  A render of a W x H grid in which every sink call succeeds  *)
(* leaves on the sink exactly: hide-cursor, move-to(0,0), then for each    *)
(* row y = 0..H-1 and in it each column x = 0..W-1 the triple              *)
(* set-background(0,0,0), set-foreground(colour of glyph[x][y]),           *)
(* print(character of glyph[x][y]), then reset-colors, then flush.         *)
(***************************************************************************)
C6_FrameSequence ==
    (out # <<>> /\ Clean(out)) => out = ExpectedFrame(waterfall)

\* A clean frame of a 2 x 2 grid whose two columns differ in row 0.
C6_Witness ==
    /\ pc = "rendered"
    /\ Clean(out)
    /\ waterfall.width = 2
    /\ waterfall.height = 2
    /\ Len(out) = 16
    /\ waterfall.columns[1].glyphs[1] # waterfall.columns[2].glyphs[1]

(***************************************************************************)
(* C7 (Spec).  render propagates any write or flush failure: if a sink     *)
(* call of the frame failed, render returned an error.                     *)
(* A failure of hide-cursor, of move-to-origin or of any call of a cell    *)
(* is dropped (lines 106, 151, 152) and render returns Ok.                 *)
(***************************************************************************)
C7_FailurePropagates ==
    (\E i \in 1..Len(out) : ~out[i].ok) => render_result = "Err"

(***************************************************************************)
(* C8 (Spec).  A failing sink call aborts the driver loop: it is the last  *)
(* call of its frame, no step follows it and no later frame is rendered.   *)
(* It fails with C7: after a dropped failure the frame goes on, render     *)
(* returns Ok and main carries on with step and the next frame.            *)
(***************************************************************************)
C8_FailureAbortsLoop ==
    sink_failed
        => /\ pc = "aborted"
           /\ \A i \in 1..(Len(out) - 1) : out[i].ok

(***************************************************************************)
(* C9 (Spec).  The loop alternates render, step, sleep, beginning with     *)
(* render: a step runs only right after a render that returned Ok, of the  *)
(* very grid it changes; the k-th frame is rendered after exactly k - 1    *)
(* steps and (its sink calls succeeding) shows the grid as it is then;     *)
(* the first frame shows blank characters in (0,0,0) only.                 *)
(***************************************************************************)
C9_RenderStepAlternation ==
    /\ pc \in {"render", "sleep"} => frames = steps
    /\ pc \in {"rendered", "step", "panicked"}
          => frames = steps + 1 /\ render_result = "Ok"
    /\ pc = "aborted" => frames = steps + 1 /\ render_result = "Err"
    /\ (pc = "rendered" /\ Clean(out)) => out = ExpectedFrame(waterfall)
    /\ (pc \in {"rendered", "aborted"} /\ frames = 1)
          => \A i \in 1..Len(out) :
                /\ out[i].cmd = "Print" => out[i].arg = <<32>>
                /\ out[i].cmd = "SetForegroundColor" => out[i].arg = <<0, 0, 0>>

\* The third frame, rendered after two steps that changed the grid.
C9_Witness ==
    /\ pc = "rendered"
    /\ frames = 3
    /\ steps = 2
    /\ Clean(out)
    /\ waterfall.width >= 1
    /\ waterfall.height >= 2
    /\ waterfall.columns[1].glyphs[2].character \in Alphabet

(***************************************************************************)
(* C10 (Spec).  After exactly one MatrixWaterFall::step on a fresh         *)
(* waterfall with H >= 2, every column's row 0 is either still the empty   *)
(* glyph with active_index 0, or a glyph with a character of the alphabet  *)
(* (not blank) in one of the two spawn colours with active_index 1; every  *)
(* row >= 1 of every column is still the empty glyph.                      *)
(***************************************************************************)
C10_FirstStep ==
    (pc = "sleep" /\ steps = 1 /\ waterfall.height >= 2)
        => \A x \in 1..waterfall.width :
             LET c == waterfall.columns[x]
             IN  /\ \/ /\ c.glyphs[1] = [character |-> 32, color |-> <<0, 0, 0>>]
                       /\ c.active_index = 0
                    \/ /\ c.glyphs[1].character \in Alphabet
                       /\ c.glyphs[1].character # 32
                       /\ c.glyphs[1].color \in {<<0, 150, 255>>, <<0, 255, 43>>}
                       /\ c.active_index = 1
                 /\ \A y \in 2..waterfall.height :
                       c.glyphs[y] = [character |-> 32, color |-> <<0, 0, 0>>]

\* One step of a 2 x 2 grid in which column 0 spawned and column 1 was gated.
C10_Witness ==
    /\ pc = "sleep"
    /\ steps = 1
    /\ waterfall.width = 2
    /\ waterfall.height = 2
    /\ waterfall.columns[1].active_index = 1
    /\ waterfall.columns[1].glyphs[1].color = <<0, 255, 43>>
    /\ waterfall.columns[2].active_index = 0
    /\ waterfall.columns[2].glyphs[1].character = 32

(***************************************************************************)
(* C12 (Spec).  In every reachable state the number of columns is the      *)
(* width, every column has the height of the waterfall and holds exactly   *)
(* height glyphs; no step or render changes width, height, the number of   *)
(* columns or a column's number of glyphs.                                 *)
(***************************************************************************)
C12_Shape ==
    /\ Len(waterfall.columns) = waterfall.width
    /\ \A x \in 1..Len(waterfall.columns) :
         /\ waterfall.columns[x].height = waterfall.height
         /\ Len(waterfall.columns[x].glyphs) = waterfall.height

C12_ShapeKept ==
    /\ waterfall'.width = waterfall.width
    /\ waterfall'.height = waterfall.height
    /\ Len(waterfall'.columns) = Len(waterfall.columns)
    /\ \A x \in 1..Len(waterfall.columns) :
         /\ waterfall'.columns[x].height = waterfall.columns[x].height
         /\ Len(waterfall'.columns[x].glyphs) = Len(waterfall.columns[x].glyphs)

C12_GridNeverResized == []C12_Shape /\ [][C12_ShapeKept]_vars

\* A 2 x 2 grid two ticks on, its first column written in both rows.
C12_Witness ==
    /\ pc = "sleep"
    /\ steps = 2
    /\ waterfall.width = 2
    /\ waterfall.height = 2
    /\ waterfall.columns[1].active_index = 0
    /\ waterfall.columns[1].glyphs[2].character \in Alphabet

(***************************************************************************)
(* C17 (Spec).  A Column::step on column i, gated or not, leaves the       *)
(* glyphs and active_index of every column j # i as they were, and         *)
(* MatrixWaterFall::render leaves every column as it was.                  *)
(***************************************************************************)
C17_ColumnsIsolated ==
    [][/\ pc = "step"
          => \A j \in 1..Len(waterfall.columns) :
                j # step_x + 1
                   => /\ waterfall'.columns[j].glyphs = waterfall.columns[j].glyphs
                      /\ waterfall'.columns[j].active_index
                            = waterfall.columns[j].active_index
       /\ pc = "render" => waterfall'.columns = waterfall.columns]_vars

\* In the second tick of a 2 x 2 grid, column 0 has been stepped and has
\* wrapped; column 1, which spawned in the first tick, has not been yet.
C17_Witness ==
    /\ pc = "step"
    /\ step_x = 1
    /\ steps = 1
    /\ frames = 2
    /\ waterfall.width = 2
    /\ waterfall.height = 2
    /\ waterfall.columns[1].active_index = 0
    /\ waterfall.columns[1].glyphs[2].character \in Alphabet
    /\ waterfall.columns[2].active_index = 1
    /\ waterfall.columns[2].glyphs[1].color \in SpawnColors

(***************************************************************************)
(* C15 (SpecColumn).  In every reachable state of a column of height H, a  *)
(* row i that was ever spawned has been faded exactly                      *)
(* (active_index - 1 - i) mod H times since it was last written: it holds  *)
(* a character of the alphabet in a spawn colour faded that many times.    *)
(* A row never spawned is the empty glyph.  Gated ticks fade nothing.      *)
(***************************************************************************)
RECURSIVE FadeTimes(_, _)
FadeTimes(c, n) == IF n = 0 THEN c ELSE FadeTimes(FadeColor(c), n - 1)

C15_AgeFromCursor ==
    col_pc = "ready"
        => \A i \in 1..column.height :
             IF ages[i] < 0
             THEN column.glyphs[i] = [character |-> 32, color |-> <<0, 0, 0>>]
             ELSE /\ ages[i] = (column.active_index - i + column.height) % column.height
                  /\ column.glyphs[i].character \in Alphabet
                  /\ \E c \in SpawnColors :
                        column.glyphs[i].color = FadeTimes(c, ages[i])

\* A column of height 3 that has wrapped and then idled, gated, at the
\* top: its rows are 2, 1 and 0 fades old.
C15_Witness ==
    /\ col_pc = "ready"
    /\ column.height = 3
    /\ column.active_index = 0
    /\ ages = <<2, 1, 0>>
    /\ last # <<>>
    /\ last[1].index = 0
    /\ ~NotGatedInput(last[1])

(***************************************************************************)
(* C16 (SpecColumn).  A step taken with active_index # 0 is never a no-op  *)
(* and draws no gate value: it makes one call on rand (the character),     *)
(* and moves active_index on by one, wrapping to 0.  A step leaves         *)
(* active_index where it was only when active_index = 0.                   *)
(***************************************************************************)
C16_GateOnlyAtTop ==
    (col_pc = "ready" /\ last # <<>>)
        => /\ last[1].index # 0
                 => /\ took = 1
                    /\ column.active_index = (last[1].index + 1) % column.height
                    /\ column.active_index # last[1].index
                    /\ column.glyphs[last[1].index + 1].color \in SpawnColors
           /\ column.active_index = last[1].index => last[1].index = 0

\* The last step of a drop in a column of height 3, taken with a draw that
\* would have gated it at the top.
C16_Witness ==
    /\ col_pc = "ready"
    /\ column.height = 3
    /\ last # <<>>
    /\ last[1].index = 2
    /\ 8 * last[1].d.gate > 13421773
    /\ column.active_index = 0
    /\ took = 1

(***************************************************************************)
(* C13 (SpecFade).  As claimed: one fade_color yields a colour whose HSL   *)
(* saturation and HSL lightness are each not greater than the input's and  *)
(* whose channels are in 0..255; the character is unchanged.               *)
(* The saturation part fails: truncation to 8 bits can raise it, as in     *)
(* (2,2,3) -> (1,1,2), saturation 1/5 -> 1/3.                              *)
(***************************************************************************)
\* saturation(a) <= saturation(b), the saturation being HslChroma / HslDenom
\* (and 0 for a grey).
SaturationLeq(a, b) ==
    \/ HslChroma(a) = 0
    \/ /\ HslChroma(b) # 0
       /\ HslChroma(a) * HslDenom(b) <= HslChroma(b) * HslDenom(a)

ChannelsInRange(c) == \A k \in 1..3 : c[k] \in 0..255

C13_FadeNeverMoreSaturated ==
    [][/\ SaturationLeq(glyph'.color, glyph.color)
       /\ HslSum(glyph'.color) <= HslSum(glyph.color)
       /\ ChannelsInRange(glyph'.color)
       /\ glyph'.character = glyph.character]_vars

(***************************************************************************)
(* C13 as amended (SpecFade).  One fade_color yields a colour whose HSL    *)
(* lightness is not greater than the input's and whose channels are in     *)
(* 0..255; a grey (saturation 0) stays a grey; the character is unchanged. *)
(***************************************************************************)
C13_FadeNeverLighter ==
    [][/\ HslSum(glyph'.color) <= HslSum(glyph.color)
       /\ ChannelsInRange(glyph'.color)
       /\ HslChroma(glyph.color) = 0 => HslChroma(glyph'.color) = 0
       /\ glyph'.character = glyph.character]_vars

\* The spawn colour (0,150,255) with a character of the alphabet, faded
\* once.
C13_Witness ==
    /\ unfaded = <<GlyphNew(Characters[1], <<0, 150, 255>>)>>
    /\ glyph.character = Characters[1]
    /\ glyph.color # <<0, 150, 255>>

(***************************************************************************)
(* C14 (SpecFadeFair).  Repeated fade_color is monotone with black as its  *)
(* floor: each fade leaves the lightness not greater, every colour is      *)
(* (0,0,0) after finitely many fades and stays so, and the fade of         *)
(* (0,0,0) is (0,0,0).                                                     *)
(***************************************************************************)
C14_FadesToBlack ==
    /\ [][/\ HslSum(glyph'.color) <= HslSum(glyph.color)
          /\ glyph.color = <<0, 0, 0>> => glyph'.color = <<0, 0, 0>>]_vars
    /\ [](glyph.color = <<0, 0, 0>> => FadeColor(glyph.color) = <<0, 0, 0>>)
    /\ <>[](glyph.color = <<0, 0, 0>>)

\* Black reached by a fade of a colour that was not black.
C14_Witness ==
    /\ unfaded # <<>>
    /\ unfaded[1].color # <<0, 0, 0>>
    /\ glyph.color = <<0, 0, 0>>

(***************************************************************************)
(* C11 (SpecOrder).  MatrixWaterFall::step steps every column exactly once *)
(* per tick, and the order in which the columns are stepped does not       *)
(* affect the result: with the same per-column draws, stepping the columns *)
(* in any permutation yields the same grid.                                *)
(***************************************************************************)
C11_OrderIndependent ==
    /\ permuted = waterfall
    /\ (tick # <<>> /\ pc = "step") =>
          \A x \in 1..waterfall.width : tick[1].count[x] = 1

\* Two columns stepped the other way round, with draws that leave them
\* different.
C11_Witness ==
    /\ tick # <<>>
    /\ pc = "step"
    /\ waterfall.width >= 2
    /\ tick[1].order # VecOrder(waterfall.width)
    /\ waterfall.columns[1] # waterfall.columns[2]

(***************************************************************************)
(* C19 (SpecRuns).  Two executions started from the same grid with the     *)
(* same state of the supplied random source have, after any number of      *)
(* steps, the same active_index and the same characters in every column    *)
(* (and have read the source equally far); the coin of choose_random can   *)
(* make them differ in the colours only.                                   *)
(***************************************************************************)
C19_SameButColors ==
    /\ skew = 0
    /\ twin.width = waterfall.width
    /\ twin.height = waterfall.height
    /\ Len(twin.columns) = Len(waterfall.columns)
    /\ \A x \in 1..Len(waterfall.columns) :
         /\ twin.columns[x].active_index = waterfall.columns[x].active_index
         /\ Len(twin.columns[x].glyphs) = Len(waterfall.columns[x].glyphs)
         /\ \A i \in 1..Len(waterfall.columns[x].glyphs) :
              twin.columns[x].glyphs[i].character
                 = waterfall.columns[x].glyphs[i].character

\* The two executions after a full step, with a glyph spawned in both that
\* has the same character and another colour.
C19_Witness ==
    /\ steps >= 1
    /\ \E x \in 1..Len(waterfall.columns) :
         \E i \in 1..Len(waterfall.columns[x].glyphs) :
            /\ waterfall.columns[x].glyphs[i].character = Characters[Len(Characters)]
            /\ twin.columns[x].glyphs[i].character = Characters[Len(Characters)]
            /\ twin.columns[x].glyphs[i].color # waterfall.columns[x].glyphs[i].color

(***************************************************************************)
(* C18 (Spec).  The system has no terminal state: as long as no sink call  *)
(* of render fails, the loop of main never stops by itself (and every      *)
(* column keeps spawning).                                                 *)
(* On a grid of height 0 the first step that is not gated panics (C5) and  *)
(* ends main, no sink call having failed.                                  *)
(***************************************************************************)
C18_LoopNeverStops == ~sink_failed => pc \notin {"panicked", "aborted"}

=============================================================================
